---- MODULE Spec2Model ----
(***************************************************************************)
(* MoodMate (src/moodmate_final.py): the temporal emotion-stabilisation    *)
(* core.  The EmotionAnalyzer thread samples a frame, classifies it and    *)
(* votes over a rolling window; the Tk thread polls the stable verdict,    *)
(* reacts once per change (debounced) and pauses the analyzer; the user    *)
(* pauses, resumes and closes the application.                             *)
(*                                                                         *)
(* Threads interleave at every statement that reads or writes a field of   *)
(* EmotionAnalyzer.  A `with self.lock:` block of the Tk thread is one     *)
(* step, enabled only while the lock is free; the analyzer thread holds    *)
(* the lock from the end of its classification to the end of its block.    *)
(* time.sleep() has no effect on the state and is folded into the step     *)
(* it belongs to.                                                          *)
(***************************************************************************)
EXTENDS Integers, Sequences, FiniteSets, TLC

\* ---------------------------------------------------------------- bounds
\* Number of emotion labels the classifier reports in a session (a prefix of
\* LabelSeq): in the specifications with the Tk thread, and in the ones with
\* the sampling thread and the tracker's own operations only.
NumLabels == 2
NumLabelsWide == 4
\* Clock resolution: ticks per second of wall-clock time.
TicksPerSecond == 2

\* ------------------------------------------------------------- constants
ROLLING_WINDOW == 7
STABLE_THRESHOLD == 3
\* check_stable_periodic: `now - self.last_trigger > 1.0`
DEBOUNCE_SECONDS == 1

None == "None"

\* Keys of EMOTION_MAP / EMOJI / MOOD_TEXT ('neutral', the default of
\* EMOTION_MAP.get, first).
LabelSeq == <<"neutral", "happy", "sad", "angry", "surprise", "fear", "disgust">>

AllLabels == {LabelSeq[i] : i \in 1..Len(LabelSeq)}

LabelsUpTo(n) == {LabelSeq[i] : i \in 1..(IF n < Len(LabelSeq) THEN n ELSE Len(LabelSeq))}

Debounce == DEBOUNCE_SECONDS * TicksPerSecond

\* now - last_trigger is kept up to this value: every larger value passes
\* the debounce test alike.
SinceCap == Debounce + 1

VARIABLES
  window,            \* EmotionAnalyzer.window: deque(maxlen=ROLLING_WINDOW)
  stable_emotion,    \* EmotionAnalyzer.stable_emotion
  paused,            \* EmotionAnalyzer.paused
  running,           \* EmotionAnalyzer.running
  lock,              \* EmotionAnalyzer.lock: "free" or its holder
  pc,                \* position of EmotionAnalyzer.run
  frame,             \* run's local frame: "none", or "fresh"/"stale" as it was
                     \* captured after/before the latest resume()
  emotions,          \* the labels the classifier reports in this session
  mode_raises,       \* the interpreter's statistics.mode raises on a tie
                     \* (Python < 3.8) or returns the first mode (>= 3.8)
  classifier,        \* "any": DeepFace may succeed or fail on a frame;
                     \* "failing": it raises or returns nothing usable on
                     \* every frame of the session
  current_displayed, \* MoodMateApp.current_displayed
  since_trigger,     \* time.time() - MoodMateApp.last_trigger, in ticks
  ui_pc,             \* position of the Tk thread
  grab,              \* a suggestion dialog holds the modal grab
  cap_open,          \* MoodMateApp.cap not yet released
  last_op            \* last operation applied to the analyzer's fields

vars == <<window, stable_emotion, paused, running, lock, pc, frame,
          emotions, mode_raises, classifier, current_displayed, since_trigger, ui_pc, grab,
          cap_open, last_op>>

analyzer_fields == <<window, stable_emotion, paused, running, lock>>
app_fields == <<current_displayed, since_trigger, ui_pc, grab, cap_open>>
session == <<emotions, mode_raises, classifier>>

\* ------------------------------------------------------------ pure parts

\* sum(1 for x in self.window if x == mode_val)
Count(w, l) == Cardinality({i \in 1..Len(w) : w[i] = l})

\* A bounded append that drops the newest label instead of the oldest.
deque_append_evict_newest(w, x) ==
  IF Len(w) >= ROLLING_WINDOW
  THEN Append(SubSeq(w, 1, Len(w) - 1), x) ELSE Append(w, x)

\* deque(maxlen=ROLLING_WINDOW).append: the oldest is dropped when full.
deque_append(w, x) ==
  IF Len(w) >= ROLLING_WINDOW THEN Append(Tail(w), x) ELSE Append(w, x)

\* Counter(data): the number of occurrences of each label of w.
Counter(w) == [l \in {w[i] : i \in 1..Len(w)} |-> Count(w, l)]

\* A mode that returns the last of the tied labels.
statistics_mode_last(w, raises) ==
  IF w = <<>> THEN None
  ELSE LET c == Counter(w)
           top == CHOOSE n \in {c[l] : l \in DOMAIN c} :
                    \A l \in DOMAIN c : c[l] <= n
           table == {l \in DOMAIN c : c[l] = top}
           last == CHOOSE j \in 1..Len(w) :
                     /\ w[j] \in table
                     /\ \A k \in (j + 1)..Len(w) : w[k] \notin table
       IN IF raises /\ Cardinality(table) > 1 THEN None ELSE w[last]

\* statistics.mode(list(self.window)) inside try/except: None when it raises.
\* Python >= 3.8 returns Counter(data).most_common(1): the first label, in the
\* order of the data, among those with the highest count.  Python < 3.8
\* raises StatisticsError unless exactly one label has the highest count.
\* The data is never empty here.
statistics_mode(w, raises) ==
  IF w = <<>> THEN None
  ELSE LET c == Counter(w)
           top == CHOOSE n \in {c[l] : l \in DOMAIN c} :
                    \A l \in DOMAIN c : c[l] <= n
           table == {l \in DOMAIN c : c[l] = top}
           first == CHOOSE j \in 1..Len(w) :
                      /\ w[j] \in table
                      /\ \A k \in 1..(j - 1) : w[k] \notin table
       IN IF raises /\ Cardinality(table) > 1 THEN None ELSE w[first]

\* Variants of promote: without the threshold test, with a strict threshold
\* test, and clearing the verdict when the test fails.
promote_below_threshold(w, cur, raises) ==
  LET mode_val == statistics_mode(w, raises)
  IN IF mode_val # None THEN mode_val ELSE cur

promote_strict(w, cur, raises) ==
  LET mode_val == statistics_mode(w, raises)
  IN IF mode_val # None /\ Count(w, mode_val) > STABLE_THRESHOLD
     THEN mode_val ELSE cur

promote_reset(w, cur, raises) ==
  LET mode_val == statistics_mode(w, raises)
  IN IF mode_val # None /\ Count(w, mode_val) >= STABLE_THRESHOLD
     THEN mode_val ELSE None

\* run, lines 154-162: the verdict after the append, given the verdict before.
promote(w, cur, raises) ==
  LET mode_val == statistics_mode(w, raises)
  IN IF mode_val # None /\ Count(w, mode_val) >= STABLE_THRESHOLD
     THEN mode_val ELSE cur

\* _predict: what it returns for each outcome of the classifier.
\*   <<"dom", l>>   DeepFace names a dominant emotion l (lower-cased)
\*   <<"empty">>    DeepFace returns neither a dominant emotion nor scores
\*   <<"raise">>    DeepFace.analyze raises
\*   <<"demo">>     DeepFace is not installed
\* Every result is a key of EMOTION_MAP / EMOJI / MOOD_TEXT; random.choice
\* draws among the labels of the session.
ClassifierOutcomes(labels) ==
  {<<"dom", l>> : l \in labels \cup {"unknown"}} \cup {<<"empty">>, <<"raise">>, <<"demo">>}

\* A _predict that hands on what the classifier gave: the raw label, and
\* the failure itself when there is no label.
predict_raw(outcome, labels) ==
  IF outcome[1] = "dom" THEN {outcome[2]} ELSE {outcome[1]}

predict(outcome, labels) ==
  IF outcome[1] = "dom"
  THEN {IF outcome[2] \in AllLabels THEN outcome[2] ELSE "neutral"}
  ELSE labels

\* The outcomes of the classifier in a session of the given kind.
SessionOutcomes(kind, labels) ==
  IF kind = "failing" THEN {<<"empty">>, <<"raise">>} ELSE ClassifierOutcomes(labels)

\* Every label _predict can return in a session.
PredictResults(kind, labels) ==
  UNION {predict(outcome, labels) : outcome \in SessionOutcomes(kind, labels)}

\* The gate without the debounce test.
should_react_no_debounce(stable, displayed, since) ==
  stable # None /\ stable # displayed

\* check_stable_periodic, lines 302-304.
should_react(stable, displayed, since) ==
  stable # None /\ stable # displayed /\ since > Debounce

\* ------------------------------------------------------------------ Init

InitSession(n, kind) ==
  /\ emotions = LabelsUpTo(n)
  /\ classifier = kind
  /\ window = <<>>
  /\ stable_emotion = None
  /\ paused = FALSE
  /\ running = TRUE
  /\ lock = "free"
  /\ pc = "while"
  /\ frame = "none"
  /\ mode_raises \in BOOLEAN
  /\ current_displayed = None
  /\ since_trigger = SinceCap
  /\ ui_pc = "idle"
  /\ grab = FALSE
  /\ cap_open = TRUE
  /\ last_op = "init"

InitWith(n) == InitSession(n, "any")

Init == InitWith(NumLabels)

\* A session of either kind: the classifier may work, or fails on every frame.
InitAnySession == \E kind \in {"any", "failing"} : InitSession(NumLabels, kind)

InitWide == InitWith(NumLabelsWide)

\* ------------------------------------------------- EmotionAnalyzer.run

\* A loop head that ignores self.running.
run_while_forever ==
  /\ pc = "while"
  /\ pc' = "if_paused"
  /\ UNCHANGED <<analyzer_fields, frame, session, app_fields, last_op>>

\* line 143: while self.running
run_while ==
  /\ pc = "while"
  /\ pc' = IF running THEN "if_paused" ELSE "done"
  /\ UNCHANGED <<analyzer_fields, frame, session, app_fields, last_op>>

\* lines 144-146: if self.paused: sleep; continue
run_if_paused ==
  /\ pc = "if_paused"
  /\ pc' = IF paused THEN "while" ELSE "get_frame"
  /\ UNCHANGED <<analyzer_fields, frame, session, app_fields, last_op>>

\* A loop that takes the lock before the classification.
run_get_frame_locking ==
  /\ pc = "get_frame"
  /\ lock = "free"
  /\ \E ret \in (IF cap_open THEN BOOLEAN ELSE {FALSE}) :
       IF ret
       THEN /\ frame' = "fresh"
            /\ pc' = "predict"
            /\ lock' = "analyzer"
       ELSE /\ frame' = "none"
            /\ pc' = "no_frame"
            /\ lock' = lock
  /\ UNCHANGED <<window, stable_emotion, paused, running, session, app_fields, last_op>>

\* A loop that classifies whatever get_frame returned, None included.
run_get_frame_unchecked ==
  /\ pc = "get_frame"
  /\ \E ret \in (IF cap_open THEN BOOLEAN ELSE {FALSE}) :
       frame' = IF ret THEN "fresh" ELSE "none"
  /\ pc' = "predict"
  /\ UNCHANGED <<analyzer_fields, session, app_fields, last_op>>

\* lines 147-148 with get_frame_for_analyzer (277-282): cap.read() may fail,
\* and fails once the capture is released.
run_get_frame ==
  /\ pc = "get_frame"
  /\ \E ret \in (IF cap_open THEN BOOLEAN ELSE {FALSE}) :
       IF ret
       THEN /\ frame' = "fresh"
            /\ pc' = "predict"
       ELSE /\ frame' = "none"
            /\ pc' = "no_frame"
  /\ UNCHANGED <<analyzer_fields, session, app_fields, last_op>>

\* lines 149-150: frame is None: sleep; continue
run_no_frame ==
  /\ pc = "no_frame"
  /\ pc' = "while"
  /\ UNCHANGED <<analyzer_fields, frame, session, app_fields, last_op>>

\* lines 151-152: self._predict(frame) returns and `with self.lock:` is
\* entered once the lock is free.  Nothing another thread can see happens
\* between the two, so they are one step.  The label _predict returned is a
\* local of the thread until it is appended: it is drawn in run_record.
run_predict ==
  /\ pc = "predict"
  /\ lock = "free"
  /\ lock' = "analyzer"
  /\ pc' = "record"
  /\ UNCHANGED <<window, stable_emotion, paused, running, frame,
                 session, app_fields, last_op>>

\* A record section that does not release the lock.
run_record_keep_lock ==
  /\ pc = "record"
  /\ lock = "analyzer"
  /\ \E pred \in PredictResults(classifier, emotions) : window' = deque_append(window, pred)
  /\ stable_emotion' = promote(window', stable_emotion, mode_raises)
  /\ lock' = lock
  /\ pc' = "while"
  /\ frame' = "none"
  /\ last_op' = "record"
  /\ UNCHANGED <<paused, running, session, app_fields>>

\* lines 153-163: append pred, vote, promote, release, sleep
run_record ==
  /\ pc = "record"
  /\ lock = "analyzer"
  /\ \E pred \in PredictResults(classifier, emotions) : window' = deque_append(window, pred)
  /\ stable_emotion' = promote(window', stable_emotion, mode_raises)
  /\ lock' = "free"
  /\ pc' = "while"
  /\ frame' = "none"
  /\ last_op' = "record"
  /\ UNCHANGED <<paused, running, session, app_fields>>

AnalyzerNext ==
  \/ run_while
  \/ run_if_paused
  \/ run_get_frame
  \/ run_no_frame
  \/ run_predict
  \/ run_record

\* ------------------------------------- EmotionAnalyzer's public methods

\* lines 191-193 (under the lock)
get_stable == stable_emotion

\* A pause that flips the flag.
pause_toggle ==
  /\ lock = "free"
  /\ paused' = ~paused
  /\ last_op' = "pause"
  /\ UNCHANGED <<window, stable_emotion, running, lock, frame>>

\* lines 195-197
pause ==
  /\ lock = "free"
  /\ paused' = TRUE
  /\ last_op' = "pause"
  /\ UNCHANGED <<window, stable_emotion, running, lock, frame>>

\* A resume that keeps the verdict.
resume_keep_verdict ==
  /\ lock = "free"
  /\ paused' = FALSE
  /\ window' = <<>>
  /\ frame' = IF frame = "none" THEN "none" ELSE "stale"
  /\ last_op' = "resume"
  /\ UNCHANGED <<stable_emotion, running, lock>>

\* A resume that keeps the window.
resume_keep_history ==
  /\ lock = "free"
  /\ paused' = FALSE
  /\ stable_emotion' = None
  /\ frame' = IF frame = "none" THEN "none" ELSE "stale"
  /\ last_op' = "resume"
  /\ UNCHANGED <<window, running, lock>>

\* lines 199-203.  A frame the sampling thread holds at this moment was
\* captured before this resume.
resume ==
  /\ lock = "free"
  /\ paused' = FALSE
  /\ window' = <<>>
  /\ stable_emotion' = None
  /\ frame' = IF frame = "none" THEN "none" ELSE "stale"
  /\ last_op' = "resume"
  /\ UNCHANGED <<running, lock>>

\* lines 205-206 (no lock)
stop ==
  /\ running' = FALSE
  /\ last_op' = "stop"
  /\ UNCHANGED <<window, stable_emotion, paused, lock, frame>>

\* ------------------------------------------------------ MoodMateApp (Tk)

\* The main window's buttons answer only while no dialog holds the grab.
ButtonsEnabled == ui_pc = "idle" /\ ~grab

\* lines 284-285: update_video enters self.cap.read().
update_video_read ==
  /\ ui_pc = "idle"
  /\ ui_pc' = "video"
  /\ UNCHANGED <<analyzer_fields, pc, frame, session, current_displayed,
                 since_trigger, grab, cap_open, last_op>>

\* lines 285-298: cap.read() returns, the frame is shown, the next call is
\* scheduled.
update_video_show ==
  /\ ui_pc = "video"
  /\ ui_pc' = "idle"
  /\ UNCHANGED <<analyzer_fields, pc, frame, session, current_displayed,
                 since_trigger, grab, cap_open, last_op>>

\* lines 300-308, up to the call of on_new_emotion: get_stable() under the
\* lock, the gate, current_displayed = stable.  `now` is read here, so the
\* time since last_trigger (= now, assigned on return) counts from this step.
check_stable_periodic ==
  /\ ui_pc = "idle"
  /\ lock = "free"
  /\ IF should_react(get_stable, current_displayed, since_trigger)
     THEN /\ current_displayed' = get_stable
          /\ since_trigger' = 0
          /\ ui_pc' = "react"
     ELSE UNCHANGED <<current_displayed, since_trigger, ui_pc>>
  /\ UNCHANGED <<analyzer_fields, pc, frame, session, grab, cap_open, last_op>>

\* lines 310-322: on_new_emotion: self.analyzer.pause(), then the modal
\* suggestion dialog (grab_set).
on_new_emotion ==
  /\ ui_pc = "react"
  /\ pause
  /\ grab' = TRUE
  /\ ui_pc' = "idle"
  /\ UNCHANGED <<pc, session, current_displayed, since_trigger, cap_open>>

\* show_suggestion_dialog, lines 340-360: every button and the close box
\* destroy the dialog; the analyzer stays paused.
dialog_close ==
  /\ ui_pc = "idle"
  /\ grab
  /\ grab' = FALSE
  /\ UNCHANGED <<analyzer_fields, pc, frame, session, current_displayed,
                 since_trigger, ui_pc, cap_open, last_op>>

\* lines 362-366
resume_detection ==
  /\ ButtonsEnabled
  /\ resume
  /\ current_displayed' = None
  /\ UNCHANGED <<pc, session, since_trigger, ui_pc, grab, cap_open>>

\* lines 368-371
pause_detection ==
  /\ ButtonsEnabled
  /\ pause
  /\ UNCHANGED <<pc, session, app_fields>>

\* lines 482-486: close: self.analyzer.stop()
close_stop ==
  /\ ButtonsEnabled
  /\ stop
  /\ ui_pc' = "closing"
  /\ UNCHANGED <<pc, session, current_displayed, since_trigger,
                 grab, cap_open>>

\* lines 487-491: self.cap.release(); self.root.quit()
close_release ==
  /\ ui_pc = "closing"
  /\ cap_open' = FALSE
  /\ ui_pc' = "quit"
  /\ UNCHANGED <<analyzer_fields, pc, frame, session, current_displayed,
                 since_trigger, grab, last_op>>

\* Wall-clock time passes.
Tick ==
  /\ since_trigger < SinceCap
  /\ since_trigger' = since_trigger + 1
  /\ UNCHANGED <<analyzer_fields, pc, frame, session, current_displayed,
                 ui_pc, grab, cap_open, last_op>>

UiNext ==
  \/ update_video_read
  \/ update_video_show
  \/ check_stable_periodic
  \/ on_new_emotion
  \/ dialog_close
  \/ resume_detection
  \/ pause_detection
  \/ close_stop
  \/ close_release

Next == AnalyzerNext \/ UiNext \/ Tick

Spec == Init /\ [][Next]_vars

\* The sampling thread with the user's buttons only (no reaction gate):
\* pause(), resume() and stop() may come at any moment.
UserNext == AnalyzerNext \/ pause_detection \/ resume_detection \/ close_stop \/ close_release

UserSpec == Init /\ [][UserNext]_vars

FairUserSpec == UserSpec /\ WF_vars(AnalyzerNext)

\* The sampling thread with resume() at any moment, over more labels.
TrackerNext == AnalyzerNext \/ resume_detection

TrackerSpec == InitWide /\ [][TrackerNext]_vars

\* The sampling thread with the reaction gate and resume.
GateNext ==
  AnalyzerNext \/ check_stable_periodic \/ on_new_emotion \/ dialog_close
    \/ resume_detection \/ Tick

GateSpec == Init /\ [][GateNext]_vars

\* The sampling thread fed with a given sequence of labels, with pause() and
\* resume() at any moment: every record appends the next label of the
\* sequence, counted from the last moment History was empty.
Scenario == <<"happy", "sad", "happy", "neutral", "happy", "sad", "sad">>

scenario_record ==
  /\ run_record
  /\ Len(window') <= Len(Scenario)
  /\ window' = SubSeq(Scenario, 1, Len(window'))

ScenarioNext ==
  \/ run_while
  \/ run_if_paused
  \/ run_get_frame
  \/ run_no_frame
  \/ run_predict
  \/ scenario_record
  \/ pause_detection
  \/ resume_detection

ScenarioSpec == InitWide /\ [][ScenarioNext]_vars

\* The sampling thread and the user's buttons, in sessions of either kind.
ClassifierSpec == InitAnySession /\ [][UserNext]_vars

\* The users of the lock: the sampling thread, the poller with its pause()
\* and the Resume button.  The sampling thread keeps running; the Tk thread,
\* blocked in pause() on the lock, gets it (the sampling thread sleeps
\* ANALYZE_INTERVAL after every release).
LockNext ==
  AnalyzerNext \/ check_stable_periodic \/ on_new_emotion \/ dialog_close
    \/ resume_detection

FairLockSpec ==
  Init /\ [][LockNext]_vars /\ WF_vars(AnalyzerNext) /\ SF_vars(on_new_emotion)

\* ---------------------------------------------------------------- claims

\* l occurs in w, and no label occurs more often in w.
IsTop(w, l) ==
  LET n == Count(w, l)
  IN n > 0 /\ \A k \in 1..Len(w) : Count(w, w[k]) <= n

\* No label occurs n times or more in w.
AllBelow(w, n) == \A i \in 1..Len(w) : Count(w, w[i]) < n

\* A step of the sampling thread that appends to History (lines 153-162).
RecordStep == pc = "record" /\ pc' = "while"

\* C1: once pause() has returned and until the next resume(), History and
\* StableVerdict stay as they are, whatever the sampling thread was doing
\* when pause() was called.
C1_PausedTrackerIsFrozen ==
  [][(paused /\ paused') => (window' = window /\ stable_emotion' = stable_emotion)]_vars

\* C2: after the gate has reacted (current_displayed is a label from the
\* reaction until resume_detection resets it) no further reaction fires until
\* resume().
C2_OneReactionPerResume ==
  [][(ui_pc = "idle" /\ ui_pc' = "react") => current_displayed = None]_vars

\* C3: every label appended to History was classified from a frame captured
\* after the latest resume().
C3_FreshEvidenceOnly ==
  [][RecordStep => frame = "fresh"]_vars

\* C4 (as stated): StableVerdict is non-null only if its label occurs in
\* History at least STABLE_THRESHOLD times and is the mode of History.
C4_VerdictIsCurrentMode ==
  stable_emotion # None =>
    /\ Count(window, stable_emotion) >= STABLE_THRESHOLD
    /\ IsTop(window, stable_emotion)

\* C4 (amended): StableVerdict takes a new non-null value only in a step
\* after which that label occurs in History at least STABLE_THRESHOLD times
\* and is a most frequent label of History.
C4_VerdictWasModeWhenSet ==
  [][(stable_emotion' # None /\ stable_emotion' # stable_emotion) =>
       /\ Count(window', stable_emotion') >= STABLE_THRESHOLD
       /\ IsTop(window', stable_emotion')]_vars

\* A record promoted a label that holds exactly STABLE_THRESHOLD places of a
\* full window.
C4_Witness ==
  /\ last_op = "record"
  /\ stable_emotion # None
  /\ stable_emotion = window[Len(window)]
  /\ Count(window, stable_emotion) = STABLE_THRESHOLD
  /\ Len(window) = ROLLING_WINDOW

\* C5 (as stated): after a record of a label that now occurs at least
\* STABLE_THRESHOLD times in the last ROLLING_WINDOW records, get_stable()
\* returns that label.
C5_ThresholdLabelWins ==
  (last_op = "record" /\ Len(window) > 0
     /\ Count(window, window[Len(window)]) >= STABLE_THRESHOLD)
  => get_stable = window[Len(window)]

\* C5 (amended): after a record, a label that occurs in History at least
\* STABLE_THRESHOLD times and more often than every other label is what
\* get_stable() returns.
C5_UniqueModeWins ==
  last_op = "record" =>
    \A l \in AllLabels :
      (/\ Count(window, l) >= STABLE_THRESHOLD
       /\ \A m \in AllLabels \ {l} : Count(window, m) < Count(window, l))
      => get_stable = l

\* A label reached the threshold with its latest record while other labels
\* are in History, and is the verdict.
C5_Witness ==
  /\ last_op = "record"
  /\ Count(window, window[Len(window)]) = STABLE_THRESHOLD
  /\ \A i \in 1..Len(window) :
       window[i] # window[Len(window)] => ~IsTop(window, window[i])
  /\ \E i \in 1..Len(window) : window[i] # window[Len(window)]
  /\ get_stable = window[Len(window)]

\* C6: a record never clears StableVerdict, changes it only to a most
\* frequent label of History with at least STABLE_THRESHOLD occurrences, and
\* leaves it alone when no label reaches the threshold; only resume() turns
\* a non-null verdict into null.
C6_RecordKeepsOrPromotes ==
  [][/\ RecordStep =>
          /\ (stable_emotion # None => stable_emotion' # None)
          /\ (stable_emotion' # stable_emotion =>
                /\ IsTop(window', stable_emotion')
                /\ Count(window', stable_emotion') >= STABLE_THRESHOLD)
          /\ (stable_emotion' # stable_emotion => ~AllBelow(window', STABLE_THRESHOLD))
     /\ (stable_emotion # None /\ stable_emotion' = None) => last_op' = "resume"]_vars

\* A verdict that outlived its evidence: no label reaches the threshold.
C6_Witness ==
  /\ last_op = "record"
  /\ stable_emotion # None
  /\ AllBelow(window, STABLE_THRESHOLD)

\* C7: History never holds more than ROLLING_WINDOW labels, and a record at
\* full capacity drops the oldest label.
C7_BoundedFifo ==
  /\ Len(window) <= ROLLING_WINDOW
  /\ [][/\ Len(window') <= ROLLING_WINDOW
        /\ (RecordStep /\ Len(window) = ROLLING_WINDOW) =>
             SubSeq(window', 1, ROLLING_WINDOW - 1) = Tail(window)]_vars

\* A record into a full window whose oldest label differed from its second.
C7_Witness ==
  /\ last_op = "record"
  /\ Len(window) = ROLLING_WINDOW
  /\ window[1] # window[ROLLING_WINDOW]
  /\ window[1] # window[2]

\* C8: right after resume() History is empty, StableVerdict is null and the
\* tracker is Running, whatever the state before.
C8_ResumeResets ==
  last_op = "resume" => (window = <<>> /\ stable_emotion = None /\ ~paused)

\* resume() came while a classification was in flight.
C8_Witness ==
  /\ last_op = "resume"
  /\ window = <<>>
  /\ frame = "stale"
  /\ pc = "predict"

\* C9: the gate reacts only on a non-null verdict that differs from
\* current_displayed once the debounce interval has elapsed; current_displayed
\* takes a label, the trigger time is reset and on_new_emotion (which pauses)
\* is entered in no other step.
C9_GateReactsOnlyWhenDue ==
  [][/\ (ui_pc' = "react" /\ ui_pc # "react") =>
          /\ get_stable # None
          /\ get_stable # current_displayed
          /\ since_trigger >= Debounce
          /\ current_displayed' = get_stable
     /\ (current_displayed' # current_displayed /\ current_displayed' # None) =>
          ui_pc' = "react"
     /\ since_trigger' < since_trigger => ui_pc' = "react"
     /\ (paused' /\ ~paused) => ui_pc = "react"]_vars

\* The gate has just reacted to a verdict the sampling thread recorded:
\* current_displayed holds it, the trigger time is reset and the pause of
\* on_new_emotion is still to come.
C9_Witness ==
  /\ ui_pc = "react"
  /\ current_displayed # None
  /\ last_op = "record"
  /\ since_trigger = 0
  /\ ~paused

\* C10: after stop() the sampling loop terminates, and records at most once
\* more: once it has recorded after the stop it never records again.
C10_StopTerminates ==
  /\ (~running) ~> (pc = "done")
  /\ [][(~running /\ last_op = "record") => ~RecordStep]_vars
  /\ [][~running => ~(pc = "while" /\ pc' = "if_paused")]_vars

\* The loop ended after completing the tick that was in flight at stop().
C10_Witness ==
  /\ ~running
  /\ last_op = "record"
  /\ pc = "done"

\* C11: while fewer than STABLE_THRESHOLD records have been performed since
\* the tracker was created or last resumed (History, empty at both moments,
\* then holds every one of them), StableVerdict is null.
C11_NoVerdictBeforeThreshold ==
  Len(window) < STABLE_THRESHOLD => stable_emotion = None

\* Two records of the same label into an empty History: the verdict is null.
C11_Witness ==
  /\ last_op = "record"
  /\ Len(window) = STABLE_THRESHOLD - 1
  /\ \A i \in 1..Len(window) : window[i] = window[1]
  /\ stable_emotion = None

\* C12: recording the labels of Scenario into an empty History gives the
\* verdict happy after the 5th record, and after the 7th record (happy and
\* sad tied at 3) the verdict is the same in every run: happy, as the first
\* mode where statistics.mode returns one and as the verdict kept where it
\* raises.
C12_ScenarioVerdict ==
  /\ window = SubSeq(Scenario, 1, 5) => get_stable = "happy"
  /\ window = Scenario => get_stable = "happy"

\* The 7th label of the scenario has been recorded.
C12_Witness ==
  /\ last_op = "record"
  /\ window = Scenario
  /\ get_stable = "happy"

\* The tracker's state: TrackerState flag, History, StableVerdict.
TrackerState == <<paused, window, stable_emotion>>

\* C13: in a state left by pause() (no record since), a further pause()
\* changes nothing of the tracker's state, and in a state left by resume() a
\* further resume() changes nothing of it: applying either twice in a row
\* gives the state that applying it once gives.
C13_PauseResumeIdempotent ==
  /\ last_op = "pause" => ~ENABLED (pause_detection /\ TrackerState' # TrackerState)
  /\ last_op = "resume" => ~ENABLED (resume_detection /\ TrackerState' # TrackerState)

\* pause() has returned on a tracker with History and a verdict, and can be
\* called again.
C13_Witness ==
  /\ last_op = "pause"
  /\ paused
  /\ window # <<>>
  /\ stable_emotion # None
  /\ ENABLED pause_detection

\* C14: a tick whose get_frame() returned None records nothing: from there
\* the sampling thread changes neither History nor StableVerdict and goes
\* back to the loop head; the classifier runs, and a record is made, only
\* with a frame.
C14_NoFrameNoRecord ==
  /\ [](pc \in {"predict", "record"} => frame # "none")
  /\ [][/\ (pc = "get_frame" /\ pc' = "no_frame") =>
             (window' = window /\ stable_emotion' = stable_emotion /\ frame' = "none")
        /\ (pc = "no_frame" /\ pc' # "no_frame") =>
             (pc' = "while" /\ window' = window /\ stable_emotion' = stable_emotion)]_vars

\* get_frame() has just returned None on a tracker with History and a
\* verdict.
C14_Witness ==
  /\ pc = "no_frame"
  /\ frame = "none"
  /\ last_op = "record"
  /\ window # <<>>
  /\ stable_emotion # None

\* C15: a failing classification does not end the sampling loop: the loop
\* ends only after stop(), every record section appends exactly one label and
\* returns to the loop head, and every label in History and every verdict
\* is a key of EMOTION_MAP.
C15_FailureRecordsFallback ==
  /\ [](\A i \in 1..Len(window) : window[i] \in AllLabels)
  /\ [](stable_emotion \in AllLabels \cup {None})
  /\ [](pc = "done" => ~running)
  /\ [][(pc = "record" /\ pc' # "record") =>
          /\ pc' = "while"
          /\ Len(window') = (IF Len(window) < ROLLING_WINDOW THEN Len(window) + 1 ELSE ROLLING_WINDOW)
          /\ window'[Len(window')] \in AllLabels]_vars

\* Every classification of the session failed; History is full of fallback
\* labels, there is a verdict and the loop is running its next tick.
C15_Witness ==
  /\ classifier = "failing"
  /\ Len(window) = ROLLING_WINDOW
  /\ stable_emotion # None
  /\ running
  /\ pc = "get_frame"

\* C16: every read and write of window, stable_emotion, paused and running
\* is made by a thread that holds the lock: the sampling thread holds it
\* when it reads running (loop head), reads paused (pause test) or writes
\* window and stable_emotion (record section), and when the Tk thread writes
\* one of the four fields no other thread holds it.
C16_AllAccessUnderLock ==
  [][/\ (pc \in {"while", "if_paused", "record"} /\ pc' # pc) => lock = "analyzer"
     /\ (pc' = pc /\ <<window, stable_emotion, paused, running>>' #
                      <<window, stable_emotion, paused, running>>) => lock = "free"]_vars

\* Two or more labels are tied for most frequent in w.
Tied(w) ==
  \E i, j \in 1..Len(w) : w[i] # w[j] /\ IsTop(w, w[i]) /\ IsTop(w, w[j])

\* The most frequent label of w that occurs first in w.
FirstTop(w) ==
  w[CHOOSE j \in 1..Len(w) : IsTop(w, w[j]) /\ \A k \in 1..(j - 1) : ~IsTop(w, w[k])]

\* C17 (as stated): a record that leaves two or more labels tied for most
\* frequent in History leaves StableVerdict unchanged.
C17_TieSkipsPromotion ==
  [][(RecordStep /\ Tied(window')) => stable_emotion' = stable_emotion]_vars

\* C17 (amended): a record that leaves a tie leaves StableVerdict unchanged
\* where statistics.mode raises on a tie (Python < 3.8); where it returns the
\* first mode (Python >= 3.8) the verdict becomes the tied label that occurs
\* first in History if the tied labels have count >= STABLE_THRESHOLD, and is
\* unchanged otherwise.
C17_TiePromotesFirstMode ==
  [][(RecordStep /\ Tied(window')) =>
       stable_emotion' =
         IF ~mode_raises /\ Count(window', FirstTop(window')) >= STABLE_THRESHOLD
         THEN FirstTop(window') ELSE stable_emotion]_vars

\* A record made a tie at STABLE_THRESHOLD by bringing the oldest label of a
\* History that never was full to the threshold, and that label, the first
\* mode, is the verdict.
C17_Witness ==
  /\ last_op = "record"
  /\ ~mode_raises
  /\ Len(window) < ROLLING_WINDOW
  /\ Tied(window)
  /\ Count(window, window[1]) = STABLE_THRESHOLD
  /\ window[Len(window)] = window[1]
  /\ stable_emotion = window[1]

\* C18: the sampling thread holds the lock exactly in its record section,
\* never while _predict runs; so while a classification is in flight the Tk
\* thread's get_stable() (in check_stable_periodic), pause() and resume() go
\* through without waiting.
C18_PredictOutsideLock ==
  /\ lock = "analyzer" <=> pc = "record"
  /\ (pc = "predict" /\ ButtonsEnabled) =>
       /\ ENABLED check_stable_periodic
       /\ ENABLED pause_detection
       /\ ENABLED resume_detection

\* pause() was called and returned while a classification was in flight.
C18_Witness ==
  /\ pc = "predict"
  /\ frame = "fresh"
  /\ last_op = "pause"
  /\ paused
  /\ lock = "free"

\* C19: the sampling thread's cap.read() (get_frame_for_analyzer) never
\* happens while the Tk thread is inside the cap.read() of update_video, and
\* never after close() has released the capture.
C19_CameraReadsExcludeEachOther ==
  [][(pc = "get_frame" /\ pc' # "get_frame") => (ui_pc # "video" /\ cap_open)]_vars

\* C20: the lock is released on every way out of the record section, so it
\* is always free again after the sampling thread took it, and a pause() of
\* the Tk thread that found it taken completes.
C20_LockAlwaysReleased ==
  /\ (lock = "analyzer") ~> (lock = "free")
  /\ (ui_pc = "react") ~> (ui_pc = "idle" /\ lock = "free")
  /\ [][(lock = "analyzer" /\ pc' # pc) => lock' = "free"]_vars

\* The Tk thread is about to call pause() while the sampling thread is in
\* its record section.
C20_Witness ==
  /\ ui_pc = "react"
  /\ lock = "analyzer"
  /\ pc = "record"

====
